---- MODULE Spec2Model ----
(***************************************************************************)
(* Model of quant_trading_app.py: one run of main(), from load_data to the *)
(* raw-data table.  The data frame is a sequence of rows (records), one    *)
(* per date.  float64 values are exact rationals <<n, d>> in lowest terms  *)
(* with d > 0; the IEEE special values are NaN = <<0,0>>, +inf = <<1,0>>   *)
(* and -inf = <<-1,0>>.  Rounding is not modelled.                         *)
(*                                                                         *)
(* The slider ranges of the source (5..50, 20..200, 5..30) are scaled down *)
(* to 1..MaxShort, 1..MaxLong and 1..MaxRsi; like the source's ranges they *)
(* allow every order between the three windows and the series length.      *)
(***************************************************************************)
EXTENDS Integers, Sequences, FiniteSets, TLC

\* ---- bounds ----
MaxLen == 5
MaxShort == 2
MaxLong == 3
MaxRsi == 3
Prices == {1, 2, 4}

\* ---- program constant: trading days per year (lines 85, 86) ----
TradingDays == 252

VARIABLES pc, data, sma_short, sma_long, rsi_period,
          total_ret, annual_ret, sharpe, shown

vars == <<pc, data, sma_short, sma_long, rsi_period,
          total_ret, annual_ret, sharpe, shown>>

\* ---- float64 as exact rationals ----
NaN == <<0, 0>>

Abs(x) == IF x < 0 THEN -x ELSE x

Sgn(x) == IF x > 0 THEN 1 ELSE IF x < 0 THEN -1 ELSE 0

RECURSIVE GCD(_, _)
GCD(a, b) == IF b = 0 THEN a ELSE GCD(b, a % b)

\* the float with value n/d (d may be negative; d = 0 gives NaN or +-inf)
Rat(n, d) ==
    IF d = 0 THEN <<Sgn(n), 0>>
    ELSE LET g == GCD(Abs(n), Abs(d))
         IN  <<(Sgn(d) * n) \div g, Abs(d) \div g>>

OfInt(i) == <<i, 1>>

IsNaN(a) == a = NaN

IsInf(a) == a[2] = 0 /\ a[1] # 0

IsFinite(a) == a[2] > 0

Add(a, b) ==
    IF IsNaN(a) \/ IsNaN(b) THEN NaN
    ELSE IF IsInf(a) /\ IsInf(b) THEN (IF a = b THEN a ELSE NaN)
    ELSE IF IsInf(a) THEN a
    ELSE IF IsInf(b) THEN b
    ELSE Rat(a[1] * b[2] + b[1] * a[2], a[2] * b[2])

Neg(a) == <<-a[1], a[2]>>

Sub(a, b) == Add(a, Neg(b))

Mul(a, b) ==
    IF IsNaN(a) \/ IsNaN(b) THEN NaN
    ELSE IF IsInf(a) \/ IsInf(b) THEN <<Sgn(a[1]) * Sgn(b[1]), 0>>
    ELSE Rat(a[1] * b[1], a[2] * b[2])

\* IEEE division: x/0 is +-inf, 0/0 is NaN, no exception
Div(a, b) ==
    IF IsNaN(a) \/ IsNaN(b) THEN NaN
    ELSE IF IsInf(b) THEN (IF IsInf(a) THEN NaN ELSE <<0, 1>>)
    ELSE IF IsInf(a) THEN (IF b[1] < 0 THEN Neg(a) ELSE a)
    ELSE Rat(a[1] * b[2], a[2] * b[1])

\* a > b on floats: False when either side is NaN
Gt(a, b) ==
    /\ ~IsNaN(a)
    /\ ~IsNaN(b)
    /\ Sub(a, b) # NaN
    /\ Sub(a, b)[1] > 0

\* ---- load_data ----
RawCloses == {OfInt(p) : p \in Prices} \cup {NaN}

RawSeries == UNION {[1..n -> RawCloses] : n \in 0..MaxLen}

\* DataFrame.dropna: keep the rows in which no column is NaN
dropna(frame, columns) ==
    SelectSeq(frame, LAMBDA row : \A c \in columns : ~IsNaN(row[c]))

\* yf.download(...) followed by dropna; the date of a row is its position
\* in the cleaned series
load_data(raw) ==
    LET kept == SelectSeq(raw, LAMBDA c : ~IsNaN(c))
    IN  [i \in 1..Len(kept) |-> [date |-> i, Close |-> kept[i]]]

Init ==
    /\ pc = "load"
    /\ data = <<>>
    /\ sma_short = 0
    /\ sma_long = 0
    /\ rsi_period = 0
    /\ total_ret = NaN
    /\ annual_ret = NaN
    /\ sharpe = NaN
    /\ shown = <<>>

\* variant of LoadData: the empty frame is not stopped
LoadData_no_empty_check ==
    /\ pc = "load"
    /\ \E raw \in RawSeries : data' = load_data(raw)
    /\ shown' = Append(shown, "close_chart")
    /\ pc' = "sma"
    /\ UNCHANGED <<sma_short, sma_long, rsi_period, total_ret, annual_ret, sharpe>>

\* lines 40-47: load, stop on an empty frame, else chart the close price
LoadData ==
    /\ pc = "load"
    /\ \E raw \in RawSeries :
         /\ data' = load_data(raw)
         /\ IF data' = <<>>
            THEN /\ shown' = Append(shown, "error_no_data")
                 /\ pc' = "nodata"
            ELSE /\ shown' = Append(shown, "close_chart")
                 /\ pc' = "sma"
    /\ UNCHANGED <<sma_short, sma_long, rsi_period, total_ret, annual_ret, sharpe>>

\* ---- pandas / ta column operations; t is a row position, 1-based ----
RECURSIVE SumClose(_, _, _)
SumClose(frame, lo, hi) ==
    IF lo > hi THEN <<0, 1>>
    ELSE Add(frame[hi].Close, SumClose(frame, lo, hi - 1))

\* Series.rolling(window).mean(): NaN until the window is full
rolling_mean(frame, window, t) ==
    IF t < window THEN NaN
    ELSE Div(SumClose(frame, t - window + 1, t), OfInt(window))

\* Series.pct_change(): NaN on the first row
pct_change(frame, t) ==
    IF t = 1 THEN NaN
    ELSE Sub(Div(frame[t].Close, frame[t - 1].Close), OfInt(1))

\* variant of shift: the same-day signal, no lag
shift_same_day(frame, t) == OfInt(frame[t].Signal)

\* Series.shift(1) of the integer Signal column: NaN on the first row
shift(frame, t) ==
    IF t = 1 THEN NaN ELSE OfInt(frame[t - 1].Signal)

\* variant of np_where: >= in place of >
np_where_ge(s, l) == IF Gt(s, l) \/ (IsFinite(s) /\ s = l) THEN 1 ELSE -1

\* np.where(SMA_short > SMA_long, 1, -1): a comparison with NaN is False
np_where(s, l) == IF Gt(s, l) THEN 1 ELSE -1

\* RSIIndicator: close.diff(1) split into gains and losses, the NaN of the
\* first diff replaced by 0.0
up_direction(frame, t) ==
    IF t > 1 /\ Gt(frame[t].Close, frame[t - 1].Close)
    THEN Sub(frame[t].Close, frame[t - 1].Close) ELSE <<0, 1>>

down_direction(frame, t) ==
    IF t > 1 /\ Gt(frame[t - 1].Close, frame[t].Close)
    THEN Sub(frame[t - 1].Close, frame[t].Close) ELSE <<0, 1>>

\* ewm(alpha = 1/window, adjust=False).mean() of the gains (up = TRUE) or
\* of the losses, before min_periods is applied
RECURSIVE ewm_mean(_, _, _, _)
ewm_mean(frame, window, up, t) ==
    LET x == IF up THEN up_direction(frame, t) ELSE down_direction(frame, t)
    IN  IF t = 1 THEN x
        ELSE Add(Mul(Rat(window - 1, window), ewm_mean(frame, window, up, t - 1)),
                 Mul(Rat(1, window), x))

\* RSIIndicator(close, window).rsi(): min_periods = window leaves the first
\* window-1 rows NaN; a zero average loss gives 100
rsi(frame, window, t) ==
    LET emaup == IF t < window THEN NaN ELSE ewm_mean(frame, window, TRUE, t)
        emadn == IF t < window THEN NaN ELSE ewm_mean(frame, window, FALSE, t)
    IN  IF emadn = <<0, 1>> THEN OfInt(100)
        ELSE Sub(OfInt(100), Div(OfInt(100), Add(OfInt(1), Div(emaup, emadn))))

\* variant of cumprod: the factor of row t alone, nothing accumulated
cumprod_not_running(frame, column, t) == Add(OfInt(1), frame[t][column])

\* (1 + column).cumprod() at row t
RECURSIVE cumprod(_, _, _)
cumprod(frame, column, t) ==
    IF t = 1 THEN Add(OfInt(1), frame[1][column])
    ELSE Mul(cumprod(frame, column, t - 1), Add(OfInt(1), frame[t][column]))

RECURSIVE SumCol(_, _, _)
SumCol(frame, column, t) ==
    IF t = 0 THEN <<0, 1>> ELSE Add(frame[t][column], SumCol(frame, column, t - 1))

\* Series.mean()
mean(frame, column) == Div(SumCol(frame, column, Len(frame)), OfInt(Len(frame)))

RECURSIVE SumSqDev(_, _, _, _)
SumSqDev(frame, column, m, t) ==
    IF t = 0 THEN <<0, 1>>
    ELSE LET d == Sub(frame[t][column], m)
         IN  Add(Mul(d, d), SumSqDev(frame, column, m, t - 1))

\* square of Series.std() (ddof = 1): NaN for a single row
variance(frame, column) ==
    Div(SumSqDev(frame, column, mean(frame, column), Len(frame)),
        OfInt(Len(frame) - 1))

\* (mean / std) * np.sqrt(252), held as sign(x) * x^2 because the square
\* root is not rational: 0, NaN, +inf and -inf are their own images
sharpe_ratio(frame, column) ==
    LET m == mean(frame, column)
        signedSq == IF IsFinite(m) THEN Rat(Sgn(m[1]) * m[1] * m[1], m[2] * m[2]) ELSE m
    IN  Mul(Div(signedSq, variance(frame, column)), OfInt(TradingDays))

\* ---- the steps of main() ----
\* lines 51-57: the two rolling means
MovingAverages ==
    /\ pc = "sma"
    /\ \E s \in 1..MaxShort, l \in 1..MaxLong :
         /\ sma_short' = s
         /\ sma_long' = l
         /\ data' = [t \in 1..Len(data) |->
                       data[t] @@ [SMA_short |-> rolling_mean(data, s, t),
                                   SMA_long |-> rolling_mean(data, l, t)]]
    /\ shown' = Append(shown, "sma_chart")
    /\ pc' = "rsi"
    /\ UNCHANGED <<rsi_period, total_ret, annual_ret, sharpe>>

\* lines 61-65
RSI ==
    /\ pc = "rsi"
    /\ \E w \in 1..MaxRsi :
         /\ rsi_period' = w
         /\ data' = [t \in 1..Len(data) |-> data[t] @@ [RSI |-> rsi(data, w, t)]]
    /\ shown' = Append(shown, "rsi_chart")
    /\ pc' = "signal"
    /\ UNCHANGED <<sma_short, sma_long, total_ret, annual_ret, sharpe>>

\* lines 68-70: Signal first, then the two return columns
SignalAndReturns ==
    /\ pc = "signal"
    /\ LET withSignal == [t \in 1..Len(data) |->
                            data[t] @@ [Signal |-> np_where(data[t].SMA_short,
                                                            data[t].SMA_long)]]
       IN  data' = [t \in 1..Len(data) |->
                      withSignal[t] @@
                        [Strategy_Returns |-> Mul(shift(withSignal, t),
                                                  pct_change(withSignal, t)),
                         Market_Returns |-> pct_change(withSignal, t)]]
    /\ pc' = "dropna"
    /\ UNCHANGED <<sma_short, sma_long, rsi_period, total_ret, annual_ret, sharpe, shown>>

FloatColumns ==
    {"Close", "SMA_short", "SMA_long", "RSI", "Strategy_Returns", "Market_Returns"}

\* line 71
DropNa ==
    /\ pc = "dropna"
    /\ data' = dropna(data, FloatColumns)
    /\ pc' = "cumulative"
    /\ UNCHANGED <<sma_short, sma_long, rsi_period, total_ret, annual_ret, sharpe, shown>>

\* lines 74-80
CumulativeReturns ==
    /\ pc = "cumulative"
    /\ data' = [t \in 1..Len(data) |->
                  data[t] @@
                    [Cumulative_Market |-> cumprod(data, "Market_Returns", t),
                     Cumulative_Strategy |-> cumprod(data, "Strategy_Returns", t)]]
    /\ shown' = Append(shown, "performance_chart")
    /\ pc' = "metrics"
    /\ UNCHANGED <<sma_short, sma_long, rsi_period, total_ret, annual_ret, sharpe>>

\* lines 84-90: iloc[-1] of an empty column raises IndexError
PerformanceMetrics ==
    /\ pc = "metrics"
    /\ IF data = <<>>
       THEN /\ pc' = "fault"
            /\ UNCHANGED <<total_ret, annual_ret, sharpe, shown>>
       ELSE /\ total_ret' = Sub(data[Len(data)].Cumulative_Strategy, OfInt(1))
            /\ annual_ret' = Mul(mean(data, "Strategy_Returns"), OfInt(TradingDays))
            /\ sharpe' = sharpe_ratio(data, "Strategy_Returns")
            /\ shown' = Append(shown, "metrics")
            /\ pc' = "table"
    /\ UNCHANGED <<data, sma_short, sma_long, rsi_period>>

\* lines 93-94
DataTable ==
    /\ pc = "table"
    /\ shown' = Append(shown, "raw_data")
    /\ pc' = "done"
    /\ UNCHANGED <<data, sma_short, sma_long, rsi_period, total_ret, annual_ret, sharpe>>

Next ==
    \/ LoadData
    \/ MovingAverages
    \/ RSI
    \/ SignalAndReturns
    \/ DropNa
    \/ CumulativeReturns
    \/ PerformanceMetrics
    \/ DataTable


Spec == Init /\ [][Next]_vars

\* ---- properties ----
Max(a, b) == IF a > b THEN a ELSE b

\* a > b on finite rationals, by cross-multiplication
Greater(a, b) == a[1] * b[2] > b[1] * a[2]

StrictlyIncreasing(frame) ==
    \A t \in 2..Len(frame) : Greater(frame[t].Close, frame[t - 1].Close)

RECURSIVE ProductFrom(_, _, _, _)
ProductFrom(frame, column, lo, hi) ==
    IF lo > hi THEN OfInt(1)
    ELSE Mul(Add(OfInt(1), frame[lo][column]), ProductFrom(frame, column, lo + 1, hi))

HasSignal == pc \in {"dropna", "cumulative", "metrics", "table", "done", "fault"}

ReturnOutput == pc \in {"cumulative", "metrics", "table", "done", "fault"}

\* C1: every row that dropna keeps, at date t, has market return
\* close[t]/close[t-1] - 1 and strategy return signal[t-1] * market return,
\* signal[t-1] being the Signal of the previous date in the full frame.
C1_LaggedSignal ==
    [][pc = "dropna" =>
         \A i \in 1..Len(data') :
            LET t == data'[i].date
            IN  /\ t >= 2
                /\ data[t].date = t
                /\ data'[i].Market_Returns =
                     Sub(Div(data[t].Close, data[t - 1].Close), OfInt(1))
                /\ data'[i].Strategy_Returns =
                     Mul(OfInt(data[t - 1].Signal), data'[i].Market_Returns)]_vars

\* a kept row on the day of a crossing: the signal changed that day, the
\* price moved, and the strategy return follows the signal of the day before
C1_Witness ==
    /\ pc = "cumulative"
    /\ \E i \in 2..Len(data) :
         /\ data[i].date = data[i - 1].date + 1
         /\ data[i - 1].Signal # data[i].Signal
         /\ data[i].Market_Returns # <<0, 1>>
         /\ data[i].Strategy_Returns =
              Mul(OfInt(data[i - 1].Signal), data[i].Market_Returns)

\* C2: on every date where sma_short or sma_long is undefined the signal
\* is missing, neither +1 nor -1.
C2_UndefinedSignal ==
    pc = "dropna" =>
      \A t \in 1..Len(data) :
         (IsNaN(data[t].SMA_short) \/ IsNaN(data[t].SMA_long))
            => data[t].Signal \notin {1, -1}

\* C3: with an empty return sequence the run completes without a fault and
\* the three metrics are reported as not computable.
C3_EmptyReturnsNotComputable ==
    (pc \in {"fault", "table", "done"} /\ data = <<>>) =>
      /\ pc # "fault"
      /\ IsNaN(total_ret)
      /\ IsNaN(annual_ret)
      /\ IsNaN(sharpe)

\* C4: when the strategy returns of two or more rows are all identical the
\* Sharpe ratio is the undefined value, not 0 and not an infinity.
C4_ZeroVarianceSharpe ==
    (pc \in {"table", "done"} /\ Len(data) >= 2
       /\ \A i \in 1..Len(data) :
            data[i].Strategy_Returns = data[1].Strategy_Returns)
      => IsNaN(sharpe)

\* C5: a row of the return output at date t has both moving averages
\* defined at t-1, and lies at least max(long_window, rsi_window)+1 periods
\* after the first date.
C5_WarmUpRowsDropped ==
    ReturnOutput =>
      \A i \in 1..Len(data) :
         /\ data[i].date - 1 >= sma_short
         /\ data[i].date - 1 >= sma_long
         /\ data[i].date - 1 >= Max(sma_long, rsi_period) + 1

\* C6: for strictly increasing closes and short_window < long_window the
\* signal is +1 wherever both moving averages are defined, and the strategy
\* return equals the market return on every row of the return output.
C6_Uptrend ==
    [][(pc = "dropna" /\ StrictlyIncreasing(data) /\ sma_short < sma_long) =>
         /\ \A t \in 1..Len(data) :
              (~IsNaN(data[t].SMA_short) /\ ~IsNaN(data[t].SMA_long))
                 => data[t].Signal = 1
         /\ \A i \in 1..Len(data') :
              data'[i].Strategy_Returns = data'[i].Market_Returns]_vars

\* C7: an empty loaded series ends the run in the no-data condition with
\* only the error shown; nothing runs after it.
C7_NoDataTerminal ==
    [][/\ (pc = "load" /\ data' = <<>>) =>
             /\ pc' = "nodata"
             /\ shown' = <<"error_no_data">>
             /\ sma_short' = 0 /\ sma_long' = 0 /\ rsi_period' = 0
             /\ IsNaN(total_ret') /\ IsNaN(annual_ret') /\ IsNaN(sharpe')
       /\ pc # "nodata"]_vars

C7_Witness ==
    /\ pc = "nodata"
    /\ data = <<>>
    /\ shown = <<"error_no_data">>

\* C8: the run aborts only on a non-positive window size.
C8_OnlyInvalidParameterAborts ==
    pc = "fault" => (sma_short <= 0 \/ sma_long <= 0 \/ rsi_period <= 0)

\* C9: each cumulative value is the product of (1 + return) over the output
\* rows up to its own, and total_return is the full strategy product less 1.
C9_Compounding ==
    /\ pc \in {"metrics", "table", "done", "fault"} =>
         \A t \in 1..Len(data) :
            /\ data[t].Cumulative_Strategy =
                 ProductFrom(data, "Strategy_Returns", 1, t)
            /\ data[t].Cumulative_Market =
                 ProductFrom(data, "Market_Returns", 1, t)
    /\ pc \in {"table", "done"} =>
         total_ret = Sub(ProductFrom(data, "Strategy_Returns", 1, Len(data)),
                         OfInt(1))

\* three rows whose returns all move the curve
C9_Witness ==
    /\ pc = "done"
    /\ Len(data) >= 3
    /\ \A t \in 1..Len(data) : data[t].Strategy_Returns # <<0, 1>>
    /\ data[Len(data)].Cumulative_Strategy # data[Len(data) - 1].Cumulative_Strategy
    /\ total_ret = Sub(data[Len(data)].Cumulative_Strategy, OfInt(1))

\* C10: where both moving averages are defined the signal is +1 exactly
\* when sma_short > sma_long and -1 otherwise, the tie included; it is
\* never anything but +1 or -1.
C10_SignalValues ==
    HasSignal =>
      \A t \in 1..Len(data) :
         /\ data[t].Signal \in {1, -1}
         /\ (~IsNaN(data[t].SMA_short) /\ ~IsNaN(data[t].SMA_long)) =>
              (data[t].Signal = 1 <=> Greater(data[t].SMA_short, data[t].SMA_long))

\* a tie of two defined averages over different windows, and a +1 elsewhere
C10_Witness ==
    /\ pc = "dropna"
    /\ sma_short # sma_long
    /\ \E t \in 1..Len(data) :
         /\ ~IsNaN(data[t].SMA_short)
         /\ data[t].SMA_short = data[t].SMA_long
         /\ data[t].Signal = -1
    /\ \E t \in 1..Len(data) : data[t].Signal = 1
====
